---- MODULE Spec2Model ----
(***************************************************************************)
(* Peek-A-Boo Boxing training tracker (PeekABoo_Boxing_App/app.py).        *)
(*                                                                         *)
(* The model covers the progress store (sqlite file DB_PATH with the       *)
(* tables progress and sessions), the backup directory (timestamp-named    *)
(* copies of the store file) and the mutation endpoints save_progress,     *)
(* reset_data, create_backup and restore_backup, each as one atomic        *)
(* action (the requests are served one at a time).                         *)
(*                                                                         *)
(* last is the request served by the latest step with its response, pre    *)
(* the store and the backup directory as they were before that step.       *)
(*                                                                         *)
(* settings is the settings file and procs the requests in flight of the   *)
(* specification that interleaves two of them; the other specifications    *)
(* leave both as they are.                                                 *)
(*                                                                         *)
(* Files are modelled by their content.  A store file is a record          *)
(*   [exists, tables, progress, sessions]                                  *)
(* where exists = FALSE is "no file", tables = FALSE is the 0-byte file    *)
(* sqlite3.connect leaves behind when it opens a missing path, and         *)
(* progress is the set of rows of the progress table.  The backup          *)
(* directory is a function from snapshot names to store files; a name is   *)
(* the second of the clock at which the snapshot was taken, which is what  *)
(* strftime("%Y%m%d_%H%M%S") encodes, and names sort as the integers do.   *)
(***************************************************************************)
EXTENDS Integers, Sequences, FiniteSets, TLC

\* app.py:109-110  "Keep only last 10 backups"
Keep == 10

\* Bounds of the exploration.
MaxTicks == 1
MaxOps == 2

\* Request inputs.
WeekIn == {1, 7}
DayIn == {1}
\* Submitted (fluidity, endurance, power) ratings.
ScoresIn == {<<7, 8, 6>>, <<6, 7, 8>>}
Omitted == "<omitted>"
NotesIn == {Omitted, "good session"}
\* What fails during a request: nothing, the sqlite statement, or shutil.copy2.
Faults == {"none", "db", "copy"}
\* The same for the endpoints that run no sqlite statement.
FileFaults == {"none", "copy"}

\* Keys of TRAINING_DATA: weeks 1..6, each with days 1..5.
CatalogKeys == (1..6) \X (1..5)

VARIABLES clock, db, backups, ops, last, pre, settings, procs

vars == <<clock, db, backups, ops, last, pre, settings, procs>>

----------------------------------------------------------------------------
(* Store files *)

NoFile == [exists |-> FALSE, tables |-> FALSE, progress |-> {}, sessions |-> {}]

\* What sqlite3.connect creates at a path that has no file.
BlankFile == [exists |-> TRUE, tables |-> FALSE, progress |-> {}, sessions |-> {}]

\* The file after init_db: both tables created, no rows.
EmptyStore == [exists |-> TRUE, tables |-> TRUE, progress |-> {}, sessions |-> {}]

Row(week, day, fluidity, endurance, power, date, notes) ==
    [week |-> week, day |-> day, fluidity |-> fluidity, endurance |-> endurance,
     power |-> power, date |-> date, notes |-> notes]

\* get_db_connection: opening a missing path creates a 0-byte file.
Connect(d) == IF d.exists THEN d ELSE BlankFile

\* Mutant of InsertOrReplace: INSERT OR IGNORE keeps the row the key already has.
InsertOrIgnore(rows, r) ==
    IF \E x \in rows : x.week = r.week /\ x.day = r.day THEN rows ELSE rows \cup {r}

\* Mutant of InsertOrReplace: a plain INSERT into a table without the primary key.
InsertAppend(rows, r) == rows \cup {r}

\* Mutant of InsertOrReplace: the new row takes the notes of the row it replaces.
InsertMerge(rows, r) ==
    LET old == {x \in rows : x.week = r.week /\ x.day = r.day}
        merged == IF old = {} THEN r ELSE [r EXCEPT !.notes = (CHOOSE x \in old : TRUE).notes]
    IN (rows \ old) \cup {merged}

\* INSERT OR REPLACE INTO progress ...: PRIMARY KEY (week, day).
InsertOrReplace(rows, r) ==
    {x \in rows : ~(x.week = r.week /\ x.day = r.day)} \cup {r}

----------------------------------------------------------------------------
(* Backup directory *)

RECURSIVE SortedSeq(_)
\* sorted(BACKUP_DIR.glob(...)): the names in ascending order.
SortedSeq(S) ==
    IF S = {} THEN <<>>
    ELSE LET m == CHOOSE x \in S : \A y \in S : x <= y
         IN <<m>> \o SortedSeq(S \ {m})

\* Mutant of AllButLast: backups[10:] selects the newest names instead of the oldest.
AllButFirst(s, k) == IF Len(s) > k THEN SubSeq(s, k + 1, Len(s)) ELSE <<>>

\* backups[:-10]
AllButLast(s, k) == IF Len(s) > k THEN SubSeq(s, 1, Len(s) - k) ELSE <<>>

SeqRange(s) == {s[i] : i \in 1..Len(s)}

\* Mutant of WriteSnapshot: a timestamp coarser than the second, so that the
\* snapshots of two neighbouring seconds share a name.
WriteSnapshotCoarse(b, t, d) ==
    LET c == t - (t % 2)
    IN [n \in DOMAIN b \cup {c} |-> IF n = c THEN d ELSE b[n]]

\* shutil.copy2(DB_PATH, backup_file)
WriteSnapshot(b, t, d) == [n \in DOMAIN b \cup {t} |-> IF n = t THEN d ELSE b[n]]

\* old_backup.unlink() for each name of old
Unlink(b, old) == [n \in DOMAIN b \ old |-> b[n]]

\* Mutant of backup_database: no DB_PATH.exists() test, so that copying a
\* missing store raises.
backup_database_unguarded(d, b, t, fault) ==
    IF ~d.exists \/ fault = "copy" THEN [raised |-> TRUE, ret |-> 0, backups |-> b]
    ELSE LET b1 == WriteSnapshot(b, t, d)
             sorted == SortedSeq(DOMAIN b1)
             old == IF Len(sorted) > Keep THEN SeqRange(AllButLast(sorted, Keep)) ELSE {}
         IN [raised |-> FALSE, ret |-> t, backups |-> Unlink(b1, old)]

\* backup_database(): result [raised, ret, backups]; ret = 0 is None.
backup_database(d, b, t, fault) ==
    IF ~d.exists THEN [raised |-> FALSE, ret |-> 0, backups |-> b]
    ELSE IF fault = "copy" THEN [raised |-> TRUE, ret |-> 0, backups |-> b]
    ELSE LET b1 == WriteSnapshot(b, t, d)
             sorted == SortedSeq(DOMAIN b1)
             old == IF Len(sorted) > Keep THEN SeqRange(AllButLast(sorted, Keep)) ELSE {}
         IN [raised |-> FALSE, ret |-> t, backups |-> Unlink(b1, old)]

----------------------------------------------------------------------------
(* Responses *)

\* jsonify({"success": True, "backup": ret})
Ok(ret) == [status |-> 200, json |-> TRUE, success |-> TRUE, backup |-> ret]

\* jsonify({"success": False, "error": ...}), code
Failure(code) == [status |-> code, json |-> TRUE, success |-> FALSE, backup |-> 0]

\* An exception that leaves the view function: Flask's 500 handler renders 500.html.
Unhandled == [status |-> 500, json |-> FALSE, success |-> FALSE, backup |-> 0]

Request(op, week, day, fluidity, endurance, power, notes, name, fault) ==
    [op |-> op, week |-> week, day |-> day, fluidity |-> fluidity,
     endurance |-> endurance, power |-> power, notes |-> notes,
     name |-> name, fault |-> fault]

NoRequest == Request("init", 0, 0, 0, 0, 0, "", 0, "none")

----------------------------------------------------------------------------
(* Settings file.  A text is the sequence of its characters.  The file is  *)
(* kept as what json.load makes of its bytes: kind "object" with the       *)
(* document doc (a function from keys to values), kind "value" for JSON    *)
(* that is no object (a list, a number, a string, null), kind "malformed"  *)
(* for bytes json.load rejects, kind "absent" for no file.                 *)

T0900 == <<"0", "9", ":", "0", "0">>

\* DEFAULT_SETTINGS
DEFAULT_SETTINGS ==
    [training_time |-> T0900, timezone |-> "Africa/Lagos", reminder_enabled |-> TRUE,
     sound_enabled |-> TRUE, theme |-> "light"]

SettingsFile(doc) == [kind |-> "object", doc |-> doc]

----------------------------------------------------------------------------
(* Initial states: the store after init_db, with the backup directory as   *)
(* an earlier run has left it: a manual backup of the empty store in       *)
(* second 1, a save of session (1,1) in second 2, and a manual backup in   *)
(* each second after that, n snapshots in all.                             *)

InitSnaps == {0, Keep - 1, Keep}

PastStore(t) ==
    IF t = 1 THEN EmptyStore
    ELSE [EmptyStore EXCEPT !.progress = {Row(1, 1, 7, 8, 6, 2, "good session")}]

StartTime == Keep + 1

Init ==
    \E n \in InitSnaps :
        /\ clock = StartTime
        /\ db = PastStore(n)
        /\ backups = [t \in 1..n |-> PastStore(t)]
        /\ ops = 0
        /\ pre = [db |-> db, backups |-> backups]
        /\ last = [req |-> NoRequest, resp |-> Ok(0)]
        /\ settings = SettingsFile(DEFAULT_SETTINGS)
        /\ procs = <<>>

----------------------------------------------------------------------------
(* Endpoints *)

Record(req, resp, d, b) ==
    /\ ops < MaxOps
    /\ last' = [req |-> req, resp |-> resp]
    /\ db' = d
    /\ backups' = b
    /\ ops' = ops + 1
    /\ pre' = [db |-> db, backups |-> backups]
    /\ UNCHANGED <<clock, settings, procs>>

\* Mutant of save_progress: the automatic backup is taken before the row is written.
save_progress_backup_first(week, day, fluidity, endurance, power, notes, fault) ==
    LET req == Request("save_progress", week, day, fluidity, endurance, power, notes, 0, fault)
        conn == Connect(db)
        stored == IF notes = Omitted THEN "" ELSE notes
        row == Row(week, day, fluidity, endurance, power, clock, stored)
        written == [conn EXCEPT !.progress = InsertOrReplace(conn.progress, row)]
        bk == backup_database(conn, backups, clock, fault)
    IN IF bk.raised
       THEN Record(req, Unhandled, conn, bk.backups)
       ELSE IF fault = "db" \/ ~conn.tables
            THEN Record(req, Unhandled, conn, bk.backups)
            ELSE Record(req, Ok(0), written, bk.backups)

\* Mutant of save_progress: the save also logs the session as completed.
save_progress_logs_session(week, day, fluidity, endurance, power, notes, fault) ==
    LET req == Request("save_progress", week, day, fluidity, endurance, power, notes, 0, fault)
        conn == Connect(db)
        stored == IF notes = Omitted THEN "" ELSE notes
        row == Row(week, day, fluidity, endurance, power, clock, stored)
        written == [conn EXCEPT !.progress = InsertOrReplace(conn.progress, row),
                                !.sessions = @ \cup {[week |-> week, day |-> day]}]
        bk == backup_database(written, backups, clock, fault)
    IN IF fault = "db" \/ ~conn.tables
       THEN Record(req, Unhandled, conn, backups)
       ELSE IF bk.raised
            THEN Record(req, Unhandled, written, bk.backups)
            ELSE Record(req, Ok(0), written, bk.backups)

\* POST /save_progress
save_progress(week, day, fluidity, endurance, power, notes, fault) ==
    LET req == Request("save_progress", week, day, fluidity, endurance, power, notes, 0, fault)
        conn == Connect(db)
        stored == IF notes = Omitted THEN "" ELSE notes
        row == Row(week, day, fluidity, endurance, power, clock, stored)
        written == [conn EXCEPT !.progress = InsertOrReplace(conn.progress, row)]
        bk == backup_database(written, backups, clock, fault)
    IN IF fault = "db" \/ ~conn.tables
       THEN Record(req, Unhandled, conn, backups)
       ELSE IF bk.raised
            THEN Record(req, Unhandled, written, bk.backups)
            ELSE Record(req, Ok(0), written, bk.backups)

SaveProgress ==
    \E week \in WeekIn, day \in DayIn, scores \in ScoresIn, notes \in NotesIn, fault \in Faults :
        save_progress(week, day, scores[1], scores[2], scores[3], notes, fault)

\* POST /backup/create
create_backup(fault) ==
    LET req == Request("create_backup", 0, 0, 0, 0, 0, "", 0, fault)
        bk == backup_database(db, backups, clock, fault)
    IN IF bk.raised
       THEN Record(req, Failure(500), db, bk.backups)
       ELSE Record(req, Ok(bk.ret), db, bk.backups)

CreateBackup == \E fault \in FileFaults : create_backup(fault)

\* Mutant of reset_data: the tables are cleared before the backup is taken.
reset_data_delete_first(fault) ==
    LET req == Request("reset_data", 0, 0, 0, 0, 0, "", 0, fault)
        conn == Connect(db)
        cleared == [conn EXCEPT !.progress = {}, !.sessions = {}]
        bk == backup_database(cleared, backups, clock, fault)
    IN IF fault = "db" \/ ~conn.tables
       THEN Record(req, Failure(500), conn, backups)
       ELSE IF bk.raised
            THEN Record(req, Failure(500), cleared, bk.backups)
            ELSE Record(req, Ok(bk.ret), cleared, bk.backups)

\* POST /reset_data
reset_data(fault) ==
    LET req == Request("reset_data", 0, 0, 0, 0, 0, "", 0, fault)
        bk == backup_database(db, backups, clock, fault)
        conn == Connect(db)
        cleared == [conn EXCEPT !.progress = {}, !.sessions = {}]
    IN IF bk.raised
       THEN Record(req, Failure(500), db, bk.backups)
       ELSE IF fault = "db" \/ ~conn.tables
            THEN Record(req, Failure(500), conn, bk.backups)
            ELSE Record(req, Ok(bk.ret), cleared, bk.backups)

ResetData == \E fault \in Faults : reset_data(fault)

\* Mutant of restore_backup: the store is overwritten without a snapshot of it.
restore_backup_unsafe(filename, fault) ==
    LET req == Request("restore_backup", 0, 0, 0, 0, 0, "", filename, fault)
    IN IF filename \notin DOMAIN backups
       THEN Record(req, Failure(404), db, backups)
       ELSE IF fault = "copy"
            THEN Record(req, Failure(500), db, backups)
            ELSE Record(req, Ok(0), backups[filename], backups)

\* Mutant of restore_backup: the snapshot of the store is taken before the
\* named file is looked up.
restore_backup_late_check(filename, fault) ==
    LET req == Request("restore_backup", 0, 0, 0, 0, 0, "", filename, fault)
        bk == backup_database(db, backups, clock, fault)
    IN IF bk.raised
       THEN Record(req, Failure(500), db, bk.backups)
       ELSE IF filename \notin DOMAIN bk.backups
            THEN Record(req, Failure(404), db, bk.backups)
            ELSE IF fault = "copy"
                 THEN Record(req, Failure(500), db, bk.backups)
                 ELSE Record(req, Ok(0), bk.backups[filename], bk.backups)

\* POST /backup/restore/<filename>
restore_backup(filename, fault) ==
    LET req == Request("restore_backup", 0, 0, 0, 0, 0, "", filename, fault)
        bk == backup_database(db, backups, clock, fault)
    IN IF filename \notin DOMAIN backups
       THEN Record(req, Failure(404), db, backups)
       ELSE IF bk.raised
            THEN Record(req, Failure(500), db, bk.backups)
            ELSE IF fault = "copy" \/ filename \notin DOMAIN bk.backups
                 THEN Record(req, Failure(500), db, bk.backups)
                 ELSE Record(req, Ok(0), bk.backups[filename], bk.backups)

\* Names a request can carry: the oldest and the newest snapshot of the
\* earlier run, the snapshot of the first second of this run, and a name no
\* snapshot has.
FilenameIn == {0, 1, Keep, StartTime}

RestoreBackup == \E filename \in FilenameIn, fault \in FileFaults : restore_backup(filename, fault)

\* The store file is removed from outside the program (the case
\* backup_database tests for with DB_PATH.exists()).
RemoveStore ==
    /\ db.exists
    /\ db' = NoFile
    /\ last' = [req |-> Request("remove", 0, 0, 0, 0, 0, "", 0, "none"), resp |-> Ok(0)]
    /\ pre' = [db |-> db, backups |-> backups]
    /\ UNCHANGED <<clock, backups, ops, settings, procs>>

\* The wall clock passes to the next second.
Tick ==
    /\ clock < StartTime + MaxTicks
    /\ clock' = clock + 1
    /\ last' = [req |-> Request("tick", 0, 0, 0, 0, 0, "", 0, "none"), resp |-> Ok(0)]
    /\ pre' = [db |-> db, backups |-> backups]
    /\ UNCHANGED <<db, backups, ops, settings, procs>>

Next == SaveProgress \/ ResetData \/ CreateBackup \/ RestoreBackup \/ RemoveStore \/ Tick

Spec == Init /\ [][Next]_vars

----------------------------------------------------------------------------
(* Statistics: GET /progress and GET /api/stats.  A mean is kept as the    *)
(* integer number of hundredths that round(x, 2) yields.                   *)

\* Mutant of Round2: the mean cut to two decimals instead of rounded.
Trunc2(num, den) == (100 * num) \div den

\* round(num / den, 2): the nearest hundredth, the even one on a tie (the ties
\* of a mean over fewer than 40 rows are odd multiples of 1/8, which a float
\* holds exactly).
Round2(num, den) ==
    LET q == (100 * num) \div den
        r == (100 * num) % den
    IN IF 2 * r < den THEN q
       ELSE IF 2 * r > den THEN q + 1
       ELSE IF q % 2 = 0 THEN q ELSE q + 1

RECURSIVE OrderByWeekDay(_)
\* SELECT ... FROM progress ORDER BY week, day
OrderByWeekDay(rows) ==
    IF rows = {} THEN <<>>
    ELSE LET m == CHOOSE x \in rows : \A y \in rows :
                      x.week < y.week \/ (x.week = y.week /\ x.day <= y.day)
         IN <<m>> \o OrderByWeekDay(rows \ {m})

RECURSIVE SeqSum(_, _)
\* sum(row[field] for row in data)
SeqSum(data, field) ==
    IF data = <<>> THEN 0 ELSE Head(data)[field] + SeqSum(Tail(data), field)

RECURSIVE SqlSum(_, _)
\* The total an SQL aggregate runs over the rows of the table.
SqlSum(rows, field) ==
    IF rows = {} THEN 0
    ELSE LET x == CHOOSE y \in rows : TRUE
         IN x[field] + SqlSum(rows \ {x}, field)

\* The statistics progress() hands to its template.
progress(rows) ==
    LET data == OrderByWeekDay(rows)
        avg(d, field) == Round2(SeqSum(d, field), Len(d))
        weeks == {data[i].week : i \in 1..Len(data)}
        OfWeek(w) == LET In(x) == x.week = w IN SelectSeq(data, In)
    IN IF data # <<>>
       THEN [total_sessions |-> Len(data),
             averages |-> [fluidity |-> avg(data, "fluidity"),
                           endurance |-> avg(data, "endurance"),
                           power |-> avg(data, "power")],
             weekly_stats |-> [w \in weeks |->
                                 [fluidity |-> avg(OfWeek(w), "fluidity"),
                                  endurance |-> avg(OfWeek(w), "endurance"),
                                  power |-> avg(OfWeek(w), "power")]]]
       ELSE [total_sessions |-> 0,
             averages |-> [fluidity |-> 0, endurance |-> 0, power |-> 0],
             weekly_stats |-> <<>>]

\* The JSON of api_stats (recent_sessions left out).
api_stats(rows) ==
    LET total == Cardinality(rows)
        maxweek == {x \in rows : \A y \in rows : y.week <= x.week}
        current_week == Cardinality({x \in rows : \E m \in maxweek : x.week = m.week})
        avg(field) == IF rows = {} THEN 0 ELSE Round2(SqlSum(rows, field), total)
    IN [total_sessions |-> total,
        current_week_progress |-> current_week,
        averages |-> [fluidity |-> avg("fluidity"),
                      endurance |-> avg("endurance"),
                      power |-> avg("power")]]

\* The rows a store of this specification is drawn from.
StatPool ==
    { Row(1, 1, 7, 8, 6, 1, "good session"), Row(1, 2, 6, 7, 8, 2, ""),
      Row(1, 3, 5, 9, 3, 3, ""), Row(1, 4, 10, 1, 4, 4, ""),
      Row(2, 1, 3, 3, 7, 5, ""), Row(2, 2, 8, 2, 9, 6, ""),
      Row(2, 3, 1, 10, 5, 7, ""), Row(3, 1, 9, 6, 2, 8, "") }

InitStats ==
    /\ clock = StartTime
    /\ \E rows \in SUBSET StatPool : db = [EmptyStore EXCEPT !.progress = rows]
    /\ backups = <<>>
    /\ ops = 0
    /\ last = [req |-> NoRequest, resp |-> Ok(0)]
    /\ pre = [db |-> db, backups |-> backups]
    /\ settings = SettingsFile(DEFAULT_SETTINGS)
    /\ procs = <<>>

View(op, resp) ==
    /\ last' = [req |-> Request(op, 0, 0, 0, 0, 0, "", 0, "none"), resp |-> resp]
    /\ pre' = [db |-> db, backups |-> backups]
    /\ UNCHANGED <<clock, db, backups, ops, settings, procs>>

\* GET /progress
Progress == View("progress", progress(db.progress))

\* GET /api/stats
ApiStats == View("api_stats", api_stats(db.progress))

NextStats == Progress \/ ApiStats

SpecStats == InitStats /\ [][NextStats]_vars

----------------------------------------------------------------------------
(* Texts.  int(), str.split, datetime.strptime and strftime as they act on *)
(* the characters of a text.                                               *)

Digits == <<"0", "1", "2", "3", "4", "5", "6", "7", "8", "9">>

IsDigit(c) == \E i \in 1..Len(Digits) : Digits[i] = c

DigitVal(c) == (CHOOSE i \in 1..Len(Digits) : Digits[i] = c) - 1

AllDigits(s) == s # <<>> /\ \A i \in 1..Len(s) : IsDigit(s[i])

RECURSIVE DecimalValue(_)
DecimalValue(s) ==
    IF s = <<>> THEN 0
    ELSE 10 * DecimalValue(SubSeq(s, 1, Len(s) - 1)) + DigitVal(s[Len(s)])

\* The text without the blanks at its two ends.
RECURSIVE Strip(_)
Strip(s) ==
    IF s = <<>> THEN s
    ELSE IF s[1] = " " THEN Strip(Tail(s))
    ELSE IF s[Len(s)] = " " THEN Strip(SubSeq(s, 1, Len(s) - 1))
    ELSE s

\* The result of a call that returns value, and of one that raises.
Returned(value) == [raised |-> FALSE, value |-> value]

Raised == [raised |-> TRUE]

\* int(text): ValueError unless the stripped text is a row of digits.
PyInt(s) == IF AllDigits(Strip(s)) THEN Returned(DecimalValue(Strip(s))) ELSE Raised

\* The place of the first c in s, 0 if there is none.
FirstIndex(s, c) ==
    IF \E i \in 1..Len(s) : s[i] = c
    THEN CHOOSE i \in 1..Len(s) : s[i] = c /\ \A j \in 1..(i - 1) : s[j] # c
    ELSE 0

\* text.split(c)[0]
SplitFirst(s, c) == IF FirstIndex(s, c) = 0 THEN s ELSE SubSeq(s, 1, FirstIndex(s, c) - 1)

\* datetime.strptime(text, '%H:%M') as minutes after midnight: one or two
\* digits no greater than 23, a colon, one or two digits no greater than 59,
\* and nothing else; ValueError otherwise.
strptime_HM(t) ==
    LET i == FirstIndex(t, ":")
        h == SubSeq(t, 1, i - 1)
        m == SubSeq(t, i + 1, Len(t))
    IN IF /\ i # 0
          /\ Len(h) \in 1..2 /\ AllDigits(h) /\ DecimalValue(h) <= 23
          /\ Len(m) \in 1..2 /\ AllDigits(m) /\ DecimalValue(m) <= 59
       THEN Returned(60 * DecimalValue(h) + DecimalValue(m))
       ELSE Raised

TwoDigits(n) == <<Digits[(n \div 10) + 1], Digits[(n % 10) + 1]>>

\* (datetime(1900, 1, 1) + timedelta(minutes=n)).strftime('%H:%M'): the time
\* of day, the date is dropped.
strftime_HM(n) ==
    TwoDigits((n % (24 * 60)) \div 60) \o <<":">> \o TwoDigits((n % (24 * 60)) % 60)

----------------------------------------------------------------------------
(* Settings: load_settings, GET and POST /settings.                        *)

AbsentFile == [kind |-> "absent"]

MalformedFile == [kind |-> "malformed"]

\* Valid JSON that is no object: [], 5, "x", null.
ValueFile == [kind |-> "value"]

\* {**a, **b}
Merge(a, b) == [k \in DOMAIN a \cup DOMAIN b |-> IF k \in DOMAIN b THEN b[k] ELSE a[k]]

\* load_settings(): json.JSONDecodeError is the one exception it catches; the
\* merge of a value that is no mapping raises TypeError.
load_settings(file) ==
    CASE file.kind = "absent" -> Returned(DEFAULT_SETTINGS)
      [] file.kind = "malformed" -> Returned(DEFAULT_SETTINGS)
      [] file.kind = "value" -> Raised
      [] file.kind = "object" -> Returned(Merge(DEFAULT_SETTINGS, file.doc))

T2330 == <<"2", "3", ":", "3", "0">>

T0905 == <<"9", ":", "5">>

T2500 == <<"2", "5", ":", "0", "0">>

\* Values of the training_time field of the settings form.
TimeIn == {T0900, T0905, T2330, T2500, <<>>}

\* A form field: absent from the form, or given with a text.
FieldIn == {[given |-> FALSE]} \cup {[given |-> TRUE, text |-> t] : t \in TimeIn}

\* request.form.get(key, default)
FormGet(field, default) == IF field.given THEN field.text ELSE default

\* Settings files the program starts with.
FileIn ==
    {AbsentFile, MalformedFile, ValueFile, SettingsFile(DEFAULT_SETTINGS),
     SettingsFile([theme |-> "dark"]),
     SettingsFile([training_time |-> T2330, coach |-> "Cus"])}

InitSettings ==
    /\ clock = StartTime
    /\ \E rows \in SUBSET {Row(1, 1, 7, 8, 6, 2, "good session")} :
           db = [EmptyStore EXCEPT !.progress = rows]
    /\ backups = <<>>
    /\ ops = 0
    /\ settings \in FileIn
    /\ last = [req |-> [op |-> "init"], resp |-> [status |-> 200]]
    /\ pre = [db |-> db, backups |-> backups, settings |-> settings]
    /\ procs = <<>>

\* A request that leaves the store alone and the settings file as file.
Served(req, resp, file) ==
    /\ ops < MaxOps
    /\ ops' = ops + 1
    /\ last' = [req |-> req, resp |-> resp]
    /\ settings' = file
    /\ pre' = [db |-> db, backups |-> backups, settings |-> settings]
    /\ UNCHANGED <<clock, db, backups, procs>>

\* GET /settings
settings_get ==
    LET loaded == load_settings(settings)
    IN IF loaded.raised
       THEN Served([op |-> "settings_get"], [status |-> 500, raised |-> TRUE], settings)
       ELSE Served([op |-> "settings_get"],
                   [status |-> 200, raised |-> FALSE, settings |-> loaded.value], settings)

\* POST /settings with a form of training_time and reminder_enabled; the
\* fields the form lacks take the defaults of the view, a check box that is
\* not ticked is False.
settings_post(training_time, reminder_enabled) ==
    LET req == [op |-> "settings_post", training_time |-> training_time,
                reminder_enabled |-> reminder_enabled]
        loaded == load_settings(settings)
        settings_data ==
            [loaded.value EXCEPT !.training_time = FormGet(training_time, T0900),
                                 !.timezone = "Africa/Lagos",
                                 !.reminder_enabled = reminder_enabled,
                                 !.sound_enabled = FALSE,
                                 !.theme = "light"]
    IN IF loaded.raised
       THEN Served(req, [status |-> 500], settings)
       ELSE Served(req, [status |-> 302], SettingsFile(settings_data))

SettingsGet == settings_get

SettingsPost ==
    \E training_time \in FieldIn, reminder_enabled \in BOOLEAN :
        settings_post(training_time, reminder_enabled)

----------------------------------------------------------------------------
(* Calendar export: GET /export/calendar_csv.  A date is a day number; a   *)
(* row keeps the week and day of its subject, its dates and its times.     *)

\* The "duration" entries of TRAINING_DATA.
TRAINING_DATA ==
    LET d60 == <<"6", "0">>
        d65 == <<"6", "5">>
        d70 == <<"7", "0">>
        d75 == <<"7", "5">>
        d80 == <<"8", "0">>
        d85 == <<"8", "5">>
        d90 == <<"9", "0">>
        d95 == <<"9", "5">>
        d100 == <<"1", "0", "0">>
        d120 == <<"1", "2", "0">>
        r(lo, hi) == lo \o <<"-">> \o hi \o <<" ", "m", "i", "n", "u", "t", "e", "s">>
        table ==
            << <<r(d60, d75), r(d60, d75), r(d70, d80), r(d65, d75), r(d75, d85)>>,
               <<r(d65, d75), r(d70, d80), r(d70, d80), r(d75, d85), r(d80, d90)>>,
               <<r(d70, d80), r(d70, d80), r(d65, d75), r(d75, d85), r(d80, d90)>>,
               <<r(d70, d80), r(d70, d80), r(d75, d85), r(d80, d90), r(d85, d95)>>,
               <<r(d75, d85), r(d75, d85), r(d80, d90), r(d85, d95), r(d90, d100)>>,
               <<r(d75, d85), r(d75, d85), r(d75, d85), r(d80, d90), r(d90, d120)>> >>
    IN [k \in CatalogKeys |-> [duration |-> table[k[1]][k[2]]]]

\* for week in range(1, 7): for day in range(1, 6)
KeyOrder == [i \in 1..(6 * 5) |-> <<((i - 1) \div 5) + 1, ((i - 1) % 5) + 1>>]

\* Days on which the export is asked for.
TodayIn == {0, 3}

CalendarRow(week, day, date, start_time, end_time) ==
    [week |-> week, day |-> day, start_date |-> date, start_time |-> start_time,
     end_date |-> date, end_time |-> end_time]

\* Mutant of calendar_row: every session lasts the fallback 75 minutes.
calendar_row_fallback(week, day, training_time, today) ==
    LET start == strptime_HM(training_time)
    IN IF start.raised
       THEN Raised
       ELSE Returned(CalendarRow(week, day, today + 7 * (week - 1) + (day - 1),
                                 training_time, strftime_HM(start.value + 75)))

\* The body of the loop of export_calendar_csv.
calendar_row(week, day, training_time, today) ==
    LET avg_duration == PyInt(SplitFirst(TRAINING_DATA[<<week, day>>].duration, "-"))
        start == strptime_HM(training_time)
    IN IF avg_duration.raised \/ start.raised
       THEN Raised
       ELSE Returned(CalendarRow(week, day, today + 7 * (week - 1) + (day - 1),
                                 training_time,
                                 strftime_HM(start.value + avg_duration.value)))

export_calendar_csv(today) ==
    LET req == [op |-> "export_calendar_csv", today |-> today]
        loaded == load_settings(settings)
        written == [i \in 1..Len(KeyOrder) |->
                       calendar_row(KeyOrder[i][1], KeyOrder[i][2],
                                    loaded.value.training_time, today)]
    IN IF loaded.raised
       THEN Served(req, [status |-> 500, rows |-> <<>>], settings)
       ELSE IF \E i \in 1..Len(KeyOrder) : written[i].raised
            THEN Served(req, [status |-> 500, rows |-> <<>>], settings)
            ELSE Served(req, [status |-> 200,
                              rows |-> [i \in 1..Len(KeyOrder) |-> written[i].value]],
                        settings)

ExportCalendar == \E today \in TodayIn : export_calendar_csv(today)

NextSettings == SettingsGet \/ SettingsPost \/ ExportCalendar

SpecSettings == InitSettings /\ [][NextSettings]_vars

----------------------------------------------------------------------------
(* Two save_progress requests served at the same time by two threads.  A   *)
(* request passes through its statements one at a time: the INSERT OR      *)
(* REPLACE with its commit, the copy of the store, the listing of the      *)
(* backup directory, an unlink for each listed name beyond the newest 10.  *)
(* pre keeps the store and the backups as they were before the requests.   *)

Procs == {1, 2}

\* The bodies of the two requests.
ConcIn ==
    {Request("save_progress", 1, 1, 7, 8, 6, "good session", 0, "none"),
     Request("save_progress", 1, 1, 6, 7, 8, Omitted, 0, "none"),
     Request("save_progress", 2, 1, 6, 7, 8, Omitted, 0, "none")}

\* A request at its first statement.
Arrived(req) == [pc |-> "insert", req |-> req, date |-> 0, todo |-> <<>>]

InitConc ==
    \E n \in InitSnaps, r1 \in ConcIn, r2 \in ConcIn :
        /\ clock = StartTime
        /\ db = PastStore(n)
        /\ backups = [t \in 1..n |-> PastStore(t)]
        /\ ops = 0
        /\ pre = [db |-> db, backups |-> backups]
        /\ last = [req |-> NoRequest, resp |-> Ok(0)]
        /\ settings = SettingsFile(DEFAULT_SETTINGS)
        /\ procs = <<Arrived(r1), Arrived(r2)>>

\* The row a request submits, written at time t.
SubmittedRow(req, t) ==
    Row(req.week, req.day, req.fluidity, req.endurance, req.power, t,
        IF req.notes = Omitted THEN "" ELSE req.notes)

\* conn.execute('INSERT OR REPLACE ...'); conn.commit()
Insert(p) ==
    /\ procs[p].pc = "insert"
    /\ db' = [db EXCEPT !.progress = InsertOrReplace(db.progress, SubmittedRow(procs[p].req, clock))]
    /\ procs' = [procs EXCEPT ![p].pc = "copy", ![p].date = clock]
    /\ UNCHANGED <<clock, backups, ops, last, pre, settings>>

\* backup_database: shutil.copy2(DB_PATH, backup_file)
Copy(p) ==
    /\ procs[p].pc = "copy"
    /\ backups' = WriteSnapshot(backups, clock, db)
    /\ procs' = [procs EXCEPT ![p].pc = "list"]
    /\ UNCHANGED <<clock, db, ops, last, pre, settings>>

\* backup_database: backups = sorted(glob); if len(backups) > 10: backups[:-10]
List(p) ==
    /\ procs[p].pc = "list"
    /\ LET old == AllButLast(SortedSeq(DOMAIN backups), Keep)
       IN procs' = [procs EXCEPT ![p].pc = IF old = <<>> THEN "done" ELSE "unlink",
                                 ![p].todo = old]
    /\ UNCHANGED <<clock, db, backups, ops, last, pre, settings>>

\* backup_database: old_backup.unlink(), FileNotFoundError for a file that is
\* no longer there; the exception leaves backup_database and save_progress.
UnlinkNext(p) ==
    /\ procs[p].pc = "unlink"
    /\ LET old == Head(procs[p].todo)
       IN IF old \in DOMAIN backups
          THEN /\ backups' = Unlink(backups, {old})
               /\ procs' = [procs EXCEPT ![p].todo = Tail(@),
                                         ![p].pc = IF Tail(procs[p].todo) = <<>>
                                                   THEN "done" ELSE "unlink"]
          ELSE /\ backups' = backups
               /\ procs' = [procs EXCEPT ![p].pc = "raised"]
    /\ UNCHANGED <<clock, db, ops, last, pre, settings>>

\* The wall clock passes to the next second while the requests are served.
ClockTick ==
    /\ clock < StartTime + MaxTicks
    /\ clock' = clock + 1
    /\ UNCHANGED <<db, backups, ops, last, pre, settings, procs>>

NextConc ==
    \/ \E p \in Procs : Insert(p)
    \/ \E p \in Procs : Copy(p)
    \/ \E p \in Procs : List(p)
    \/ \E p \in Procs : UnlinkNext(p)
    \/ ClockTick

SpecConc == InitConc /\ [][NextConc]_vars

-----------------------------------------------------------------------------
(* Properties.  Each is a predicate on the state after a step: last is the *)
(* request of that step, pre the store and the backups before it.          *)

MutationOps == {"save_progress", "reset_data", "create_backup", "restore_backup"}

\* The step ran backup_database to its end with a store file to copy.
TookSnapshot ==
    \/ last.req.op = "save_progress" /\ last.resp.success
    \/ last.req.op \in {"reset_data", "create_backup"} /\ last.resp.backup # 0
    \/ /\ last.req.op = "restore_backup"
       /\ last.req.name \in DOMAIN pre.backups
       /\ pre.db.exists
       /\ last.req.fault = "none"

\* C1: after a save_progress that succeeds the progress table holds exactly
\* one row with the submitted (week, day); its fluidity, endurance and power
\* are the submitted ones, its notes are the submitted notes or '' when none
\* were submitted, and its date is the time of the write, whatever row the
\* key had before.
C1_SaveReplaces ==
    (last.req.op = "save_progress" /\ last.resp.success) =>
        LET r == last.req
            same == {x \in db.progress : x.week = r.week /\ x.day = r.day}
        IN /\ Cardinality(same) = 1
           /\ \A x \in same :
                /\ x.fluidity = r.fluidity
                /\ x.endurance = r.endurance
                /\ x.power = r.power
                /\ x.notes = (IF r.notes = Omitted THEN "" ELSE r.notes)
                /\ x.date = clock

\* A save without notes over a row of the same key that had notes and other ratings.
C1_Witness ==
    /\ last.req.op = "save_progress"
    /\ last.resp.success
    /\ last.req.notes = Omitted
    /\ \E x \in pre.db.progress :
        /\ x.week = last.req.week /\ x.day = last.req.day
        /\ x.notes # ""
        /\ x.fluidity # last.req.fluidity
        /\ x.date # clock

\* C2: the backup directory never holds more than 10 snapshots, and a
\* backup_database that finds more than 10 after writing its own leaves
\* exactly 10: the new one and the newest of those that were there; every
\* snapshot it removes is older than every one it keeps.
C2_PruneKeepsNewest ==
    /\ Cardinality(DOMAIN backups) <= Keep
    /\ TookSnapshot =>
        LET all == DOMAIN pre.backups \cup {clock}
            kept == DOMAIN backups
        IN /\ kept \subseteq all
           /\ clock \in kept
           /\ Cardinality(all) > Keep => Cardinality(kept) = Keep
           /\ Cardinality(all) <= Keep => kept = all
           /\ \A r \in all \ kept : \A k \in kept : r < k

\* The twelfth snapshot: the first is gone already and the second goes now.
C2_Witness ==
    /\ TookSnapshot
    /\ Cardinality(DOMAIN pre.backups) = Keep
    /\ 1 \notin DOMAIN pre.backups
    /\ 2 \in DOMAIN pre.backups
    /\ 2 \notin DOMAIN backups
    /\ Cardinality(DOMAIN backups) = Keep

\* C3: a restore_backup of a snapshot that exists when the request starts,
\* with nothing failing underneath, reports success and leaves the live store
\* equal to the content that snapshot had when the request started.
C3_RestoreExisting ==
    (/\ last.req.op = "restore_backup"
     /\ last.req.fault = "none"
     /\ last.req.name \in DOMAIN pre.backups) =>
        /\ last.resp.success
        /\ db = pre.backups[last.req.name]

\* C4: a restore_backup that overwrites an existing live store has written,
\* in the same call, a snapshot named by the current second whose content is
\* the live store as it was before the restore, and that snapshot is there
\* after the restore.
C4_RestoreSafety ==
    (last.req.op = "restore_backup" /\ last.resp.success /\ pre.db.exists) =>
        /\ clock \in DOMAIN backups
        /\ backups[clock] = pre.db

\* A restore that changed the store and added a snapshot that was not there.
C4_Witness ==
    /\ last.req.op = "restore_backup"
    /\ last.resp.success
    /\ pre.db.exists
    /\ db # pre.db
    /\ clock \notin DOMAIN pre.backups
    /\ clock \in DOMAIN backups

\* C5: a restore_backup of a name with no file answers 404 with success
\* false and changes neither the backup directory nor the live store.
C5_RestoreMissing ==
    (last.req.op = "restore_backup" /\ last.req.name \notin DOMAIN pre.backups) =>
        /\ last.resp.status = 404
        /\ last.resp.json
        /\ ~last.resp.success
        /\ backups = pre.backups
        /\ db = pre.db

\* A missing name while a store exists and the directory is full, so that a
\* safety snapshot would have added one file and pruned another.
C5_Witness ==
    /\ last.req.op = "restore_backup"
    /\ last.resp.status = 404
    /\ pre.db.exists
    /\ Cardinality(DOMAIN pre.backups) = Keep
    /\ clock \notin DOMAIN pre.backups

\* C6: backup_database without a live store file returns None and touches
\* nothing: create_backup answers success with backup null, and no endpoint
\* that calls it creates or deletes a snapshot.
C6_BackupWithoutStore ==
    /\ (last.req.op = "create_backup" /\ ~pre.db.exists) =>
        /\ last.resp.status = 200
        /\ last.resp.success
        /\ last.resp.backup = 0
        /\ db = pre.db
    /\ (last.req.op \in {"create_backup", "reset_data", "restore_backup"} /\ ~pre.db.exists) =>
        backups = pre.backups

\* create_backup with no store file and snapshots in the directory.
C6_Witness ==
    /\ last.req.op = "create_backup"
    /\ ~pre.db.exists
    /\ last.resp.success
    /\ last.resp.backup = 0
    /\ Cardinality(DOMAIN backups) = Keep

\* C7 as stated: a snapshot that exists before and after a step has the same
\* content before and after it.
C7_SnapshotsImmutable ==
    \A n \in DOMAIN pre.backups \cap DOMAIN backups : backups[n] = pre.backups[n]

\* C7 as amended: a snapshot that exists before and after a step has the
\* same content, unless the step took a snapshot in the second that names it;
\* then its content is the live store as that step copied it.
C7_SnapshotsOverwrittenOnlyInSameSecond ==
    \A n \in DOMAIN pre.backups \cap DOMAIN backups :
        backups[n] # pre.backups[n] =>
            /\ n = clock
            /\ last.req.op \in MutationOps
            /\ backups[n] = (IF last.req.op = "save_progress" THEN db ELSE pre.db)

\* A second snapshot in one second, over a first of another content.
C7_Witness ==
    /\ clock \in DOMAIN pre.backups
    /\ clock \in DOMAIN backups
    /\ backups[clock] # pre.backups[clock]

\* C8: a mutation endpoint that does not succeed answers with the JSON body
\* {success: false, error: ...}; no exception leaves the endpoint.
C8_FailuresStructured ==
    (last.req.op \in MutationOps /\ ~last.resp.success) => last.resp.json

\* C9: every row of the progress table has a key of the catalog.
C9_KeysInCatalog ==
    \A x \in db.progress : <<x.week, x.day>> \in CatalogKeys

\* The total of a column, counted value by value.
ColumnTotal(rows, field) ==
    LET values == {x[field] : x \in rows}
        Weighted[S \in SUBSET values] ==
            IF S = {} THEN 0
            ELSE LET v == CHOOSE u \in S : TRUE
                 IN v * Cardinality({x \in rows : x[field] = v}) + Weighted[S \ {v}]
    IN Weighted[values]

\* m hundredths is the mean of the column over the rows to two decimals:
\* within half a hundredth of total / count, and 0 when there is no row.
IsMeanOf(m, rows, field) ==
    LET n == Cardinality(rows)
        d == 100 * ColumnTotal(rows, field) - m * n
    IN IF n = 0 THEN m = 0 ELSE 2 * d <= n /\ -2 * d <= n

StatFields == {"fluidity", "endurance", "power"}

\* C10: the progress view and /api/stats report the number of rows and, for
\* fluidity, endurance and power, the mean over all rows to two decimals, 0
\* when there is no row; the progress view reports for exactly the weeks
\* that have rows the means over the rows of that week.
C10_Means ==
    LET rows == db.progress
        out == last.resp
    IN /\ last.req.op \in {"progress", "api_stats"} =>
            /\ out.total_sessions = Cardinality(rows)
            /\ \A f \in StatFields : IsMeanOf(out.averages[f], rows, f)
       /\ last.req.op = "progress" =>
            /\ DOMAIN out.weekly_stats = {x.week : x \in rows}
            /\ \A w \in DOMAIN out.weekly_stats : \A f \in StatFields :
                   IsMeanOf(out.weekly_stats[w][f], {x \in rows : x.week = w}, f)

\* Eight rows in three weeks, with a fluidity mean of 6.125, shown as 6.12.
C10_Witness ==
    /\ last.req.op = "progress"
    /\ db.progress = StatPool
    /\ last.resp.total_sessions = 8
    /\ last.resp.averages.fluidity = 612
    /\ DOMAIN last.resp.weekly_stats = {1, 2, 3}

\* No row at all: every mean is 0.
C10_WitnessEmpty ==
    /\ last.req.op = "api_stats"
    /\ db.progress = {}
    /\ last.resp.averages = [fluidity |-> 0, endurance |-> 0, power |-> 0]

\* A row without its date.
Undated(x) ==
    [week |-> x.week, day |-> x.day, fluidity |-> x.fluidity,
     endurance |-> x.endurance, power |-> x.power, notes |-> x.notes]

\* The store holds the row a save of the request has written at some time.
AlreadySaved(rows, r) ==
    \E x \in rows :
        Undated(x) = [week |-> r.week, day |-> r.day, fluidity |-> r.fluidity,
                      endurance |-> r.endurance, power |-> r.power,
                      notes |-> IF r.notes = Omitted THEN "" ELSE r.notes]

\* C14: a save_progress over a store that holds the result of the same save
\* leaves the same number of rows with the same keys, ratings and notes; the
\* row of the key differs from before at most in its date, which is the time
\* of the second write.
C14_SaveIdempotent ==
    (/\ last.req.op = "save_progress"
     /\ last.resp.success
     /\ AlreadySaved(pre.db.progress, last.req)) =>
        /\ Cardinality(db.progress) = Cardinality(pre.db.progress)
        /\ {Undated(x) : x \in db.progress} = {Undated(x) : x \in pre.db.progress}
        /\ \A x \in db.progress :
               (x.week = last.req.week /\ x.day = last.req.day) => x.date = clock
        /\ \A x \in db.progress :
               ~(x.week = last.req.week /\ x.day = last.req.day) => x \in pre.db.progress

\* The same save in two seconds of this run: only the date of the row moves.
C14_Witness ==
    /\ last.req.op = "save_progress"
    /\ last.resp.success
    /\ clock = StartTime + 1
    /\ \E x \in pre.db.progress :
        /\ x.date = StartTime
        /\ Undated(x) = [week |-> last.req.week, day |-> last.req.day,
                         fluidity |-> last.req.fluidity, endurance |-> last.req.endurance,
                         power |-> last.req.power, notes |-> last.req.notes]
        /\ [x EXCEPT !.date = clock] \in db.progress
        /\ x \notin db.progress

\* C15: a reset_data that succeeds on an existing store leaves the progress
\* and the sessions table empty and reports a snapshot that is in the backup
\* directory and holds the progress rows as they were before the reset.
C15_ResetSnapshotsFirst ==
    (last.req.op = "reset_data" /\ last.resp.success /\ pre.db.exists) =>
        /\ db.progress = {}
        /\ db.sessions = {}
        /\ last.resp.backup \in DOMAIN backups
        /\ backups[last.resp.backup].progress = pre.db.progress
        /\ backups[last.resp.backup] = pre.db

\* A reset of a store that had rows.
C15_Witness ==
    /\ last.req.op = "reset_data"
    /\ last.resp.success
    /\ pre.db.progress # {}
    /\ db.progress = {}
    /\ last.resp.backup = clock

\* The greatest name of the backup directory.
NewestName == CHOOSE n \in DOMAIN backups : \A m \in DOMAIN backups : m <= n

\* C17: after a save_progress that reports success there is a snapshot, and
\* the one with the greatest name has the content of the live store.
C17_NewestSnapshotIsStore ==
    (last.req.op = "save_progress" /\ last.resp.success) =>
        /\ DOMAIN backups # {}
        /\ backups[NewestName] = db

\* The second of two saves in one second, with 10 snapshots in the directory.
C17_Witness ==
    /\ last.req.op = "save_progress"
    /\ last.resp.success
    /\ Cardinality(DOMAIN pre.backups) = Keep
    /\ clock \in DOMAIN pre.backups
    /\ pre.backups[clock] = pre.db
    /\ \E x \in pre.db.progress : x.date = clock
    /\ db # pre.db
    /\ NewestName = clock

\* C18: the sessions table has no row, in the live store and in every snapshot.
C18_SessionsEmpty ==
    /\ db.sessions = {}
    /\ \A n \in DOMAIN backups : backups[n].sessions = {}

\* A save that wrote its progress row and a snapshot, and no sessions row.
C18_Witness ==
    /\ last.req.op = "save_progress"
    /\ last.resp.success
    /\ db.progress # {}
    /\ db.sessions = {}
    /\ clock \in DOMAIN backups

\* The key of a row comes before the key of another in the order of the
\* catalog: week first, then day.
KeyBefore(a, b) == a.week < b.week \/ (a.week = b.week /\ a.day < b.day)

\* C11: every calendar export answers with exactly 30 rows, one for each key
\* of the catalog, by rising week and by rising day within a week, whatever
\* the settings file and the progress table hold.
C11_ThirtyRowsInOrder ==
    (last.req.op = "export_calendar_csv") =>
        /\ last.resp.status = 200
        /\ Len(last.resp.rows) = 30
        /\ {<<r.week, r.day>> : r \in {last.resp.rows[i] : i \in 1..Len(last.resp.rows)}}
               = CatalogKeys
        /\ \A i, j \in 1..Len(last.resp.rows) :
               i < j => KeyBefore(last.resp.rows[i], last.resp.rows[j])

T1000 == <<"1", "0", ":", "0", "0">>

T1030 == <<"1", "0", ":", "3", "0">>

T1005 == <<"1", "0", ":", "0", "5">>

\* C12: the integer before the first '-' of the duration text is read for
\* each of the 30 catalog entries, and a calendar export that answers with
\* rows gives every row the start time of the settings and as end time the
\* time of day that many minutes after it ("60-75 minutes" from 09:00 ends
\* at 10:00, "90-120 minutes" at 10:30); the export fails only if the
\* settings do not load or the start time is no time of day.
C12_EndIsStartPlusNominal ==
    /\ \A k \in CatalogKeys : ~PyInt(SplitFirst(TRAINING_DATA[k].duration, "-")).raised
    /\ (last.req.op = "export_calendar_csv" /\ last.resp.status # 200) =>
           \/ load_settings(settings).raised
           \/ strptime_HM(load_settings(settings).value.training_time).raised
    /\ (last.req.op = "export_calendar_csv" /\ last.resp.status = 200) =>
           /\ Len(last.resp.rows) = Cardinality(CatalogKeys)
           /\ \A i \in 1..Len(last.resp.rows) :
                  LET r == last.resp.rows[i]
                      nominal == PyInt(SplitFirst(TRAINING_DATA[<<r.week, r.day>>].duration, "-"))
                      start == strptime_HM(r.start_time)
                      end == strptime_HM(r.end_time)
                  IN /\ r.start_time = load_settings(settings).value.training_time
                     /\ ~start.raised /\ ~end.raised
                     /\ Len(r.end_time) = 5
                     /\ end.value = (start.value + nominal.value) % (24 * 60)
           /\ last.resp.rows[1].start_time = T0900 =>
                  /\ last.resp.rows[1].end_time = T1000
                  /\ last.resp.rows[Len(last.resp.rows)].end_time = T1030

\* An export from 9:5, written without padding: the first session ends at 10:05.
C12_Witness ==
    /\ last.req.op = "export_calendar_csv"
    /\ last.resp.status = 200
    /\ last.resp.rows[1].start_time = T0905
    /\ last.resp.rows[1].end_time = T1005

\* C13: load_settings raises nothing; for a file that is absent or is no
\* settings document it gives the defaults, for a document the values of the
\* file under the keys of the file and the defaults under the other keys.
C13_LoadNeverRaises ==
    (last.req.op = "settings_get") =>
        /\ ~last.resp.raised
        /\ settings.kind # "object" => last.resp.settings = DEFAULT_SETTINGS
        /\ settings.kind = "object" =>
               /\ DOMAIN last.resp.settings = DOMAIN settings.doc \cup DOMAIN DEFAULT_SETTINGS
               /\ \A k \in DOMAIN settings.doc : last.resp.settings[k] = settings.doc[k]
               /\ \A k \in DOMAIN DEFAULT_SETTINGS \ DOMAIN settings.doc :
                      last.resp.settings[k] = DEFAULT_SETTINGS[k]

\* C19: in every row of a calendar export the end, date and time, is later
\* than the start.
C19_EndAfterStart ==
    (last.req.op = "export_calendar_csv" /\ last.resp.status = 200) =>
        \A i \in 1..Len(last.resp.rows) :
            LET r == last.resp.rows[i]
            IN \/ r.end_date > r.start_date
               \/ /\ r.end_date = r.start_date
                  /\ strptime_HM(r.end_time).value > strptime_HM(r.start_time).value

\* The request of process p has passed its insert.
Inserted(p) == procs[p].pc # "insert"

\* Both requests have come to their end.
BothFinished == \A p \in Procs : procs[p].pc \in {"done", "raised"}

SameKey(x, y) == x.week = y.week /\ x.day = y.day

\* C16: at every point of every interleaving of two save_progress requests
\* the progress table has one row for each key a request has written, and
\* that row is the whole row one of the requests has submitted for the key
\* at the time that request wrote it; a row of a key no request has written
\* is as it was before the requests, and no row appears under another key.
C16_WholeRecords ==
    /\ \A x, y \in db.progress : SameKey(x, y) => x = y
    /\ \A p \in Procs :
           Inserted(p) =>
               \E x \in db.progress :
                   /\ SameKey(x, procs[p].req)
                   /\ \E q \in Procs :
                          Inserted(q) /\ x = SubmittedRow(procs[q].req, procs[q].date)
    /\ \A x \in pre.db.progress :
           (\A p \in Procs : ~(Inserted(p) /\ SameKey(x, procs[p].req))) => x \in db.progress
    /\ \A x \in db.progress :
           (\A p \in Procs : ~(Inserted(p) /\ SameKey(x, procs[p].req))) => x \in pre.db.progress

\* Both requests have written the same key with different ratings and notes
\* over an earlier row of that key, and have come to their end.
C16_Witness ==
    /\ BothFinished
    /\ SameKey(procs[1].req, procs[2].req)
    /\ procs[1].req.fluidity # procs[2].req.fluidity
    /\ procs[1].req.notes # procs[2].req.notes
    /\ \E x \in pre.db.progress : SameKey(x, procs[1].req)
    /\ SubmittedRow(procs[1].req, procs[1].date) \in db.progress

\* C20: of two concurrent backup_database calls that start with 10 snapshots
\* in the directory neither raises, and there are at most 10 snapshots when
\* both have come to their end.
C20_ConcurrentPrune ==
    Cardinality(DOMAIN pre.backups) = Keep =>
        /\ \A p \in Procs : procs[p].pc # "raised"
        /\ BothFinished => Cardinality(DOMAIN backups) <= Keep

====
